---- MODULE Spec2Model ----
(***************************************************************************)
(* Pen plotter photo -> G-code (src/app.js).                               *)
(*                                                                         *)
(* State machine of the page: the file input, the FileReader and Image     *)
(* callbacks, the Process handler (scaling, per-pass rotation, raster      *)
(* scan, merge), and the two download handlers.                            *)
(*                                                                         *)
(* JavaScript numbers are IEEE-754 doubles.  Where the code divides or     *)
(* multiplies non-integers (1 / pxPerMM, pt.x * mmPerPx, the luminance     *)
(* weights, toFixed) the model computes the correctly rounded double, as   *)
(* a 53-bit significand in limbs of 15 bits and a binary exponent.         *)
(***************************************************************************)
EXTENDS Integers, Sequences, FiniteSets, TLC

(***************************************************************************)
(* Doubles.  A finite non-negative double is                               *)
(*   [k |-> "num", e |-> e, m |-> m]  =  m * 2^e                           *)
(* where the significand m, a natural number of exactly 53 binary digits   *)
(* (or zero, with e = 0), is a sequence of limbs in base 2^15, least       *)
(* significant first.  Infinity and NaN are [k |-> "inf"], [k |-> "nan"].  *)
(***************************************************************************)
Base == 2^15

DZero == [k |-> "num", e |-> 0, m |-> <<>>]

DInf == [k |-> "inf", e |-> 0, m |-> <<>>]

DNaN == [k |-> "nan", e |-> 0, m |-> <<>>]

IsZero(d) == d.k = "num" /\ d.m = <<>>

Limb(N, i) == IF i >= 1 /\ i <= Len(N) THEN N[i] ELSE 0

\* N without its leading zero limbs
Norm(N) ==
  LET nz == {i \in 1..Len(N) : N[i] # 0}
  IN IF nz = {} THEN <<>>
     ELSE SubSeq(N, 1, CHOOSE i \in nz : \A j \in nz : j <= i)

\* the limbs of a natural number below 2^31
BigInt(n) == Norm(<<n % Base, (n \div Base) % Base, n \div (Base * Base)>>)

\* the natural number of at most two limbs
BigVal(N) == Limb(N, 1) + Base * Limb(N, 2)

BigMulSmall(N, x) ==
  LET n == Len(N)
      c[i \in 0..n] == IF i = 0 THEN 0 ELSE (N[i] * x + c[i - 1]) \div Base
  IN Norm([i \in 1..(n + 1) |->
             IF i <= n THEN (N[i] * x + c[i - 1]) % Base ELSE c[n]])

BigAdd(A, B) ==
  LET n == IF Len(A) > Len(B) THEN Len(A) ELSE Len(B)
      c[i \in 0..n] ==
        IF i = 0 THEN 0 ELSE (Limb(A, i) + Limb(B, i) + c[i - 1]) \div Base
  IN Norm([i \in 1..(n + 1) |->
             IF i <= n THEN (Limb(A, i) + Limb(B, i) + c[i - 1]) % Base ELSE c[n]])

\* N * 2^s
BigShl(N, s) == [i \in 1..(s \div 15) |-> 0] \o BigMulSmall(N, 2^(s % 15))

\* floor(N / 2^s)
BigShr(N, s) ==
  LET a == s \div 15
      b == s % 15
  IN Norm([i \in 1..(Len(N) - a) |->
             Limb(N, i + a) \div 2^b + (Limb(N, i + a + 1) % 2^b) * 2^(15 - b)])

\* binary digit i of N, digit 0 the least significant
BigBit(N, i) == (Limb(N, i \div 15 + 1) \div 2^(i % 15)) % 2

\* N is a multiple of 2^t
BigLowZero(N, t) ==
  /\ \A i \in 1..(t \div 15) : Limb(N, i) = 0
  /\ Limb(N, t \div 15 + 1) % 2^(t % 15) = 0

\* the number of binary digits of N
BitLen(N) ==
  IF N = <<>> THEN 0
  ELSE 15 * (Len(N) - 1) + Cardinality({j \in 0..14 : 2^j <= N[Len(N)]})

\* round-to-nearest, ties-to-even, of the exact value N * 2^e, plus a non-zero
\* part below the last digit when sticky
DRound(N, e, sticky) ==
  LET s == BitLen(N) - 53 IN
  IF N = <<>> THEN DZero
  ELSE IF s <= 0 THEN [k |-> "num", e |-> e + s, m |-> BigShl(N, -s)]
  ELSE LET Q  == BigShr(N, s)
           st == sticky \/ ~BigLowZero(N, s - 1)
           up == BigBit(N, s - 1) = 1 /\ (st \/ BigBit(Q, 0) = 1)
           Q1 == BigAdd(Q, <<1>>)
       IN IF ~up THEN [k |-> "num", e |-> e + s, m |-> Q]
          ELSE IF BitLen(Q1) = 54
            THEN [k |-> "num", e |-> e + s + 1, m |-> BigShr(Q1, 1)]
          ELSE [k |-> "num", e |-> e + s, m |-> Q1]

\* limbs carried after the point by a long division: 75 binary places, at
\* least 55 significant digits of any quotient above 2^-20
FracLimbs == 5

\* the double of the integer n >= 0
DInt(n) == DRound(BigInt(n), 0, FALSE)

\* x / p in double arithmetic, integers x >= 0 and 0 <= p < 2^15 (long division)
DDivInt(x, p) ==
  IF p = 0 THEN (IF x = 0 THEN DNaN ELSE DInf)
  ELSE LET r[j \in 0..FracLimbs] ==
             IF j = 0 THEN x % p ELSE (r[j - 1] * Base) % p
           frac == [i \in 1..FracLimbs |->
                      (r[FracLimbs - i] * Base) \div p]
       IN DRound(Norm(frac \o BigInt(x \div p)), -15 * FracLimbs,
                 r[FracLimbs] # 0)

\* x * d in double arithmetic, integer 0 <= x < 2^15
DMulInt(x, d) ==
  IF d.k = "nan" THEN DNaN
  ELSE IF d.k = "inf" THEN (IF x = 0 THEN DNaN ELSE DInf)
  ELSE DRound(BigMulSmall(d.m, x), d.e, FALSE)

\* a + b in double arithmetic, finite a and b
DAdd(a, b) ==
  IF IsZero(a) THEN b
  ELSE IF IsZero(b) THEN a
  ELSE LET e == IF a.e < b.e THEN a.e ELSE b.e
       IN DRound(BigAdd(BigShl(a.m, a.e - e), BigShl(b.m, b.e - e)), e, FALSE)

\* a < b for finite doubles
DLess(a, b) ==
  IF IsZero(b) THEN FALSE
  ELSE IF IsZero(a) THEN TRUE
  ELSE \/ a.e < b.e
       \/ /\ a.e = b.e
          /\ \E i \in 1..4 : /\ a.m[i] < b.m[i]
                             /\ \A j \in (i + 1)..4 : a.m[j] = b.m[j]

\* the integer nearest to N * 2^e, ties upwards
RoundHalfUp(N, e) ==
  IF e >= 0 THEN BigVal(BigShl(N, e))
  ELSE BigVal(BigShr(N, -e)) + BigBit(N, -e - 1)

\* Number.prototype.toFixed(3) of a non-negative double: "NaN", "Infinity", or
\* the decimal with three places, held as its number of thousandths
ToFixed3(d) ==
  IF d.k = "num" THEN [k |-> "num", v |-> RoundHalfUp(BigMulSmall(d.m, 1000), d.e)]
  ELSE [k |-> d.k, v |-> 0]

(***************************************************************************)
(* JavaScript values the handlers compute with.  An integer-valued number  *)
(* that may be NaN is [nan |-> BOOLEAN, v |-> Int].                        *)
(***************************************************************************)
Num(n) == [nan |-> FALSE, v |-> n]

NaN == [nan |-> TRUE, v |-> 0]

Max(a, b) == IF a >= b THEN a ELSE b

\* a % m of JavaScript: the remainder takes the sign of the dividend
JsRem(a, m) == IF a >= 0 THEN a % m ELSE -((-a) % m)

\* v || d of JavaScript on a number: NaN and 0 are falsy
JsOr(n, d) == IF n.nan \/ n.v = 0 THEN d ELSE n.v

\* Math.round of a non-negative double that is finite or NaN
MathRound(d) == IF d.k # "num" THEN NaN ELSE Num(RoundHalfUp(d.m, d.e))

(***************************************************************************)
(* Bounds of the model.                                                    *)
(***************************************************************************)
\* pixels of one Process run whose value the canvas implementation decides
\* (resampled or rotated pixels on scanned rows)
MaxFree == 4

\* files selected in one session
MaxFiles == 2

\* points of a polyline and polylines of a list handed to the emitter
MaxPts == 3

MaxStrokes == 3

(***************************************************************************)
(* Images.  A pixel is an opaque grey level (r = g = b); px is the pixel   *)
(* array of the image, rows top to bottom.                                 *)
(***************************************************************************)
White == 255

\* grey levels of the pixels the model draws from: black and white
Palette == {0, White}

Uniform(w, h, c) == [y \in 1..h |-> [x \in 1..w |-> c]]

\* the 10x10 all-black image of the end-to-end scenario
Black10 == [w |-> 10, h |-> 10, px |-> Uniform(10, 10, 0)]

\* one row, dark exactly at columns 2, 3, 4, 9, 10
Stripes11 ==
  [w |-> 11, h |-> 1,
   px |-> <<[x \in 1..11 |-> IF (x - 1) \in {2, 3, 4, 9, 10} THEN 0 ELSE White]>>]

White2 == [w |-> 2, h |-> 2, px |-> Uniform(2, 2, White)]

IsUniform(f) ==
  \A y \in 1..f.h, x \in 1..f.w : f.px[y][x] = f.px[1][1]

(***************************************************************************)
(* extractStrokesFromImage: the rotated bounding box, the pixel data the   *)
(* canvas hands back, and the raster scan.                                 *)
(***************************************************************************)
\* |cos| of a whole number of degrees that is a multiple of 15, in millionths
AbsCosMicro(deg) ==
  LET r == (IF deg >= 0 THEN deg ELSE -deg) % 180
      a == IF r > 90 THEN 180 - r ELSE r
  IN CASE a = 0  -> 1000000
       [] a = 15 -> 965926
       [] a = 30 -> 866025
       [] a = 45 -> 707107
       [] a = 60 -> 500000
       [] a = 75 -> 258819
       [] a = 90 -> 0

AbsSinMicro(deg) == AbsCosMicro(deg + 90)

\* Math.ceil(a * cos + b * sin).  At angle 0 cos is 1 and sin is 0 exactly.
\* Math.cos and Math.sin are implementation-approximated: where the exact value
\* is a whole number n (the other multiples of 90) the computed sum is n or a
\* little above it, so the result is n or n + 1.
CeilRot(a, b, deg) ==
  LET v == a * AbsCosMicro(deg) + b * AbsSinMicro(deg)
      n == v \div 1000000
  IN IF deg = 0 THEN {a}
     ELSE IF v % 1000000 = 0 THEN {n, n + 1}
     ELSE {n + 1}

\* rows the scanner reads: y = 0, lineSpacingPx, 2 lineSpacingPx, ... below rotH
ScanYs(rotH, lineSpacingPx) == {y \in 0..(rotH - 1) : y % lineSpacingPx = 0}

\* the scaled image is known pixel for pixel when it is drawn 1:1 or is uniform
ScaledKnown(f, targetW, targetH) ==
  IsUniform(f) \/ (targetW = f.w /\ targetH = f.h)

ScaledData(f, targetW, targetH) ==
  IF targetW = f.w /\ targetH = f.h THEN f.px
  ELSE Uniform(targetW, targetH, f.px[1][1])

\* what getImageData returns for one pass: the rotated canvas size and its
\* pixels.  Pixels the canvas resamples or rotates are the rasteriser's: the
\* scanned rows take them from raster, from position offset + 1 on, and used
\* counts them (rows the scanner does not read are taken white).  A pass that
\* needs more than raster holds has no canvas here.
RotatedCanvas(f, targetW, targetH, angleDeg, lineSpacingPx, raster, offset) ==
  IF angleDeg = 0 /\ ScaledKnown(f, targetW, targetH)
  THEN {[rotW |-> targetW, rotH |-> targetH,
         data |-> ScaledData(f, targetW, targetH), used |-> 0]}
  ELSE UNION {
         LET ys == ScanYs(rotH, lineSpacingPx)
         IN IF offset + rotW * Cardinality(ys) > Len(raster) THEN {}
            ELSE {[rotW |-> rotW, rotH |-> rotH,
                   data |-> [y \in 1..rotH |-> [x \in 1..rotW |->
                               IF (y - 1) \in ys
                               THEN raster[offset + ((y - 1) \div lineSpacingPx) * rotW + x]
                               ELSE White]],
                   used |-> rotW * Cardinality(ys)]} :
         rotW \in CeilRot(targetW, targetH, angleDeg),
         rotH \in CeilRot(targetH, targetW, angleDeg)}

RECURSIVE PassCanvases(_, _, _, _, _, _, _)
\* one rotated canvas per pass angle, in pass order
PassCanvases(f, targetW, targetH, angles, lineSpacingPx, raster, offset) ==
  IF angles = <<>> THEN {<<>>}
  ELSE UNION {
         {<<c>> \o rest :
            rest \in PassCanvases(f, targetW, targetH, Tail(angles),
                                  lineSpacingPx, raster, offset + c.used)} :
         c \in RotatedCanvas(f, targetW, targetH, Head(angles),
                             lineSpacingPx, raster, offset)}

W_R == DDivInt(2126, 10000)

W_G == DDivInt(7152, 10000)

W_B == DDivInt(722, 10000)

\* 0.2126*r + 0.7152*g + 0.0722*b
Luminance(r, g, b) ==
  DAdd(DAdd(DMulInt(r, W_R), DMulInt(g, W_G)), DMulInt(b, W_B))

pixelGray(data, rotW, rotH, x, y) ==
  IF x < 0 \/ x >= rotW \/ y < 0 \/ y >= rotH THEN DInt(White)
  ELSE LET v == data[y + 1][x + 1] IN Luminance(v, v, v)

\* g < threshold
IsDark(g, threshold) == IF threshold <= 0 THEN FALSE ELSE DLess(g, DInt(threshold))

CloseRun(strokes, run) ==
  IF Len(run) >= 1 THEN Append(strokes, <<run[1], run[Len(run)]>>) ELSE strokes

RECURSIVE ScanColsNoClose(_, _, _, _, _, _, _, _, _)
\* ScanCols without the close at the end of the row: a run that reaches the
\* last column is lost
ScanColsNoClose(data, rotW, rotH, threshold, y, x, inRun, run, strokes) ==
  IF x >= rotW THEN strokes
  ELSE IF IsDark(pixelGray(data, rotW, rotH, x, y), threshold)
  THEN IF ~inRun
       THEN ScanColsNoClose(data, rotW, rotH, threshold, y, x + 1, TRUE,
                            <<[x |-> x, y |-> y]>>, strokes)
       ELSE ScanColsNoClose(data, rotW, rotH, threshold, y, x + 1, TRUE,
                            Append(run, [x |-> x, y |-> y]), strokes)
  ELSE IF inRun
       THEN ScanColsNoClose(data, rotW, rotH, threshold, y, x + 1, FALSE, <<>>,
                            CloseRun(strokes, run))
       ELSE ScanColsNoClose(data, rotW, rotH, threshold, y, x + 1, inRun, run,
                            strokes)

RECURSIVE ScanCols(_, _, _, _, _, _, _, _, _)
\* the inner loop over x of one raster row, from column x on
ScanCols(data, rotW, rotH, threshold, y, x, inRun, run, strokes) ==
  IF x >= rotW
  THEN \* close run at end of row
       IF inRun /\ Len(run) >= 1 THEN CloseRun(strokes, run) ELSE strokes
  ELSE IF IsDark(pixelGray(data, rotW, rotH, x, y), threshold)
  THEN IF ~inRun
       THEN ScanCols(data, rotW, rotH, threshold, y, x + 1, TRUE,
                     <<[x |-> x, y |-> y]>>, strokes)
       ELSE ScanCols(data, rotW, rotH, threshold, y, x + 1, TRUE,
                     Append(run, [x |-> x, y |-> y]), strokes)
  ELSE IF inRun
       THEN ScanCols(data, rotW, rotH, threshold, y, x + 1, FALSE, <<>>,
                     CloseRun(strokes, run))
       ELSE ScanCols(data, rotW, rotH, threshold, y, x + 1, inRun, run, strokes)

RECURSIVE ScanRows(_, _, _, _, _, _)
RECURSIVE ScanRowsEveryRow(_, _, _, _, _, _)
\* ScanRows stepping y by 1 instead of lineSpacingPx
ScanRowsEveryRow(data, rotW, rotH, lineSpacingPx, threshold, y) ==
  IF y >= rotH THEN <<>>
  ELSE ScanCols(data, rotW, rotH, threshold, y, 0, FALSE, <<>>, <<>>)
         \o ScanRowsEveryRow(data, rotW, rotH, lineSpacingPx, threshold, y + 1)

\* the outer loop, for (y = 0; y < rotH; y += lineSpacingPx), from row y on:
\* every row starts with inRun = false and run = [], and pushes onto strokes
ScanRows(data, rotW, rotH, lineSpacingPx, threshold, y) ==
  IF y >= rotH THEN <<>>
  ELSE ScanCols(data, rotW, rotH, threshold, y, 0, FALSE, <<>>, <<>>)
         \o ScanRows(data, rotW, rotH, lineSpacingPx, threshold, y + lineSpacingPx)

\* strokes.map(s => [{x: s[0].x + 0.0, ...}, {x: s[1].x + 0.0, ...}])
SimpleStrokes(strokes) ==
  [i \in 1..Len(strokes) |->
     <<[x |-> strokes[i][1].x, y |-> strokes[i][1].y],
       [x |-> strokes[i][2].x, y |-> strokes[i][2].y]>>]

\* the scan of one rotated canvas
extractStrokesFromImage(canvas, lineSpacingPx, threshold) ==
  SimpleStrokes(ScanRows(canvas.data, canvas.rotW, canvas.rotH, lineSpacingPx,
                         threshold, 0))

(***************************************************************************)
(* The Process handler's arithmetic, the merge, and the G-code emitter.    *)
(***************************************************************************)
\* lines 56-77: the locals computed from the form and the image's natural size.
\* The form values are whole numbers here, so widthMM * pxPerMM and
\* lineSpacingMM * pxPerMM are exact and Math.round leaves them as they are.
ProcessLocals(in, naturalWidth, naturalHeight) ==
  LET angleDeg == JsOr(in.angle, 0)
      passes == Max(1, JsOr(in.passes, 1))
      targetPxWidth == Max(1, in.widthMM * in.pxPerMM)
      scale == DDivInt(targetPxWidth, naturalWidth)
  IN [naturalWidth |-> naturalWidth,
      targetPxWidth |-> targetPxWidth,
      scale |-> scale,
      targetPxHeight |-> MathRound(DMulInt(naturalHeight, scale)),
      angles |-> [p \in 1..passes |->
                    JsRem(angleDeg + ((p - 1) * 180) \div passes, 360)],
      mmPerPx |-> DDivInt(1, in.pxPerMM),
      lineSpacingPx |-> Max(1, in.lineSpacingMM * in.pxPerMM)]

\* the canvas calls of extractStrokesFromImage throw on a source canvas
\* without pixels: targetPxHeight NaN (canvas height 0) or 0
ExtractThrows(L) == L.targetPxHeight.nan \/ L.targetPxHeight.v = 0

\* ToMM that loses the last stroke of a pass
ToMMDropLast(strokes, mmPerPx) ==
  [i \in 1..(Len(strokes) - 1) |->
     [j \in 1..Len(strokes[i]) |->
        [x |-> DMulInt(strokes[i][j].x, mmPerPx),
         y |-> DMulInt(strokes[i][j].y, mmPerPx)]]]

\* st.map(pt => ({x: pt.x * mmPerPx, y: pt.y * mmPerPx})) over one pass
ToMM(strokes, mmPerPx) ==
  [i \in 1..Len(strokes) |->
     [j \in 1..Len(strokes[i]) |->
        [x |-> DMulInt(strokes[i][j].x, mmPerPx),
         y |-> DMulInt(strokes[i][j].y, mmPerPx)]]]

RECURSIVE combinedStrokes(_, _)
RECURSIVE combinedStrokesLastFirst(_, _)
\* combinedStrokes taking the passes last to first
combinedStrokesLastFirst(strokesByPass, mmPerPx) ==
  IF strokesByPass = <<>> THEN <<>>
  ELSE combinedStrokesLastFirst(Tail(strokesByPass), mmPerPx)
         \o ToMM(Head(strokesByPass).strokes, mmPerPx)

combinedStrokes(strokesByPass, mmPerPx) ==
  IF strokesByPass = <<>> THEN <<>>
  ELSE ToMM(Head(strokesByPass).strokes, mmPerPx)
         \o combinedStrokes(Tail(strokesByPass), mmPerPx)

\* the pen and feed fields of the form, whole numbers
Pen == [penDownZ |-> 0, penUpZ |-> 5, feedTravel |-> 3000, feedDraw |-> 1000]

NoFix == [k |-> "none", v |-> 0]

\* one line of the G-code file: the word, its X/Y or Z arguments as toFixed(3)
\* prints them, the F value or stroke number, and the trailing comment
Line(op, x, y, f, note) == [op |-> op, x |-> x, y |-> y, f |-> f, note |-> note]

header(pen, absolute) ==
  << Line("comment", NoFix, NoFix, 0, "generated"),
     Line("G21", NoFix, NoFix, 0, "units mm"),
     Line(IF absolute THEN "G90" ELSE "G91", NoFix, NoFix, 0, "positioning"),
     Line("G0Z", ToFixed3(DInt(pen.penUpZ)), NoFix, 0, "pen up"),
     Line("F", NoFix, NoFix, pen.feedTravel, ""),
     Line("", NoFix, NoFix, 0, "") >>

\* StrokeLines that leaves the pen down after the stroke
StrokeLinesNoLift(stroke, idx, pen) ==
  IF Len(stroke) = 0 THEN <<>>
  ELSE << Line("comment", NoFix, NoFix, idx, "stroke"),
          Line("G0", ToFixed3(stroke[1].x), ToFixed3(stroke[1].y), 0, "travel"),
          Line("G0Z", ToFixed3(DInt(pen.penDownZ)), NoFix, 0, "pen down"),
          Line("F", NoFix, NoFix, pen.feedDraw, "") >>
       \o [i \in 1..(Len(stroke) - 1) |->
             Line("G1", ToFixed3(stroke[i + 1].x), ToFixed3(stroke[i + 1].y), 0, "")]
       \o << Line("F", NoFix, NoFix, pen.feedTravel, "") >>

\* the lines pushed for one stroke by the forEach callback
StrokeLines(stroke, idx, pen) ==
  IF Len(stroke) = 0 THEN <<>>
  ELSE << Line("comment", NoFix, NoFix, idx, "stroke"),
          Line("G0", ToFixed3(stroke[1].x), ToFixed3(stroke[1].y), 0, "travel"),
          Line("G0Z", ToFixed3(DInt(pen.penDownZ)), NoFix, 0, "pen down"),
          Line("F", NoFix, NoFix, pen.feedDraw, "") >>
       \o [i \in 1..(Len(stroke) - 1) |->
             Line("G1", ToFixed3(stroke[i + 1].x), ToFixed3(stroke[i + 1].y), 0, "")]
       \o << Line("G0Z", ToFixed3(DInt(pen.penUpZ)), NoFix, 0, "pen up"),
             Line("F", NoFix, NoFix, pen.feedTravel, "") >>

RECURSIVE BodyLines(_, _, _)
BodyLines(strokes, idx, pen) ==
  IF idx > Len(strokes) THEN <<>>
  ELSE StrokeLines(strokes[idx], idx, pen) \o BodyLines(strokes, idx + 1, pen)

\* the lines array of the downloadGcode handler
GcodeLines(strokes, pen, absolute) ==
  header(pen, absolute) \o BodyLines(strokes, 1, pen)
    \o << Line("", NoFix, NoFix, 0, ""), Line("comment", NoFix, NoFix, 0, "EOF") >>

(***************************************************************************)
(* The page.                                                               *)
(***************************************************************************)
VARIABLES
  form,                 \* the parsed values of the form fields
  raster,               \* the pixels the browser's rasteriser produces
  readers,              \* files handed to a FileReader whose onload is pending
  images,               \* the Image objects created by reader.onload
  img,                  \* index into images of the current img; 0: the initial new Image()
  lastStrokes,          \* [null |-> TRUE] or the stored stroke list
  lastCanvasSize,
  processBtnDisabled,
  downloadPNGDisabled,
  downloadGcodeDisabled,
  previewCanvas,        \* size of the preview canvas and the strokes drawn on it
  meta,                 \* what the status line reports
  download,             \* the file last handed to the browser for download
  lastRun               \* history: the locals of the latest Process click

vars ==
  <<form, raster, readers, images, img, lastStrokes, lastCanvasSize,
    processBtnDisabled, downloadPNGDisabled, downloadGcodeDisabled, previewCanvas, meta, download,
    lastRun>>

NoFile == [w |-> 0, h |-> 0, px |-> <<>>]

\* an image reports its natural size once it has loaded, 0 before
naturalWidth(i) == IF i > 0 /\ images[i].complete THEN images[i].file.w ELSE 0

naturalHeight(i) == IF i > 0 /\ images[i].complete THEN images[i].file.h ELSE 0

Null == [null |-> TRUE, v |-> <<>>]

NoRun ==
  [status |-> "none", file |-> NoFile, afterLoad |-> FALSE,
   L |-> [naturalWidth |-> 0, targetPxWidth |-> 0, scale |-> DZero,
          targetPxHeight |-> Num(0), angles |-> <<>>, mmPerPx |-> DZero,
          lineSpacingPx |-> 0],
   strokesByPass |-> <<>>]

NoDownload == [name |-> "", lines |-> <<>>, canvas |-> [width |-> 0, height |-> 0, strokes |-> 0]]

\* the state the script leaves when it has run (lines 30-32); the buttons and
\* the canvas are as the markup declares them
PageInit ==
  /\ readers = <<>>
  /\ images = <<>>
  /\ img = 0
  /\ lastStrokes = Null
  /\ lastCanvasSize = [w |-> 0, h |-> 0, mmPerPx |-> DZero, angles |-> <<>>]
  /\ processBtnDisabled \in BOOLEAN
  /\ downloadPNGDisabled \in BOOLEAN
  /\ downloadGcodeDisabled \in BOOLEAN
  /\ previewCanvas = [width |-> 0, height |-> 0, strokes |-> 0]
  /\ meta = [text |-> "", w |-> 0, h |-> 0]
  /\ download = NoDownload
  /\ lastRun = NoRun

\* fileInput 'change' with a file chosen: a FileReader starts reading it
FileChange(f) ==
  /\ Len(readers) + Len(images) < MaxFiles
  /\ readers' = Append(readers, f)
  /\ UNCHANGED <<form, raster, images, img, lastStrokes, lastCanvasSize, processBtnDisabled,
                 downloadPNGDisabled, downloadGcodeDisabled, previewCanvas, meta,
                 download, lastRun>>

\* reader.onload of the i-th pending reader: img becomes a new Image with src set
ReaderLoad(i) ==
  /\ i \in 1..Len(readers)
  /\ readers' = [j \in 1..(Len(readers) - 1) |->
                   IF j < i THEN readers[j] ELSE readers[j + 1]]
  /\ images' = Append(images, [file |-> readers[i], complete |-> FALSE])
  /\ img' = Len(images) + 1
  /\ UNCHANGED <<form, raster, lastStrokes, lastCanvasSize, processBtnDisabled,
                 downloadPNGDisabled, downloadGcodeDisabled, previewCanvas, meta,
                 download, lastRun>>

\* the onload of the i-th Image; its handler reads the variable img, which may
\* by now hold a later Image
ImgLoad(i) ==
  /\ i \in 1..Len(images)
  /\ ~images[i].complete
  /\ images' = [images EXCEPT ![i].complete = TRUE]
  /\ processBtnDisabled' = FALSE
  /\ meta' = [text |-> "Loaded image",
              w |-> IF img = i THEN images[i].file.w ELSE naturalWidth(img),
              h |-> IF img = i THEN images[i].file.h ELSE naturalHeight(img)]
  /\ UNCHANGED <<form, raster, readers, img, lastStrokes, lastCanvasSize,
                 downloadPNGDisabled, downloadGcodeDisabled, previewCanvas,
                 download, lastRun>>

\* some Image has fired its onload (and so enabled the Process button)
AnyLoaded == \E i \in 1..Len(images) : images[i].complete

\* strokesByPass of a run over the canvases cs
StrokesByPass(L, cs, threshold) ==
  [i \in 1..Len(cs) |->
     [angle |-> L.angles[i], rotW |-> cs[i].rotW, rotH |-> cs[i].rotH,
      data |-> cs[i].data,
      strokes |-> extractStrokesFromImage(cs[i], L.lineSpacingPx, threshold)]]

\* ProcessThrew that clears the stored strokes before the passes run
ProcessThrewClears(L) ==
  /\ lastRun' = [status |-> "threw", file |-> images[img].file,
                 afterLoad |-> AnyLoaded, L |-> L, strokesByPass |-> <<>>]
  /\ processBtnDisabled' = FALSE
  /\ lastStrokes' = [null |-> FALSE, v |-> <<>>]
  /\ UNCHANGED <<form, raster, readers, images, img, lastCanvasSize,
                 downloadPNGDisabled, downloadGcodeDisabled, previewCanvas, meta,
                 download>>

\* catch and finally of a run in which extractStrokesFromImage threw
ProcessThrew(L) ==
  /\ lastRun' = [status |-> "threw", file |-> images[img].file,
                 afterLoad |-> AnyLoaded, L |-> L, strokesByPass |-> <<>>]
  /\ processBtnDisabled' = FALSE
  /\ UNCHANGED <<form, raster, readers, images, img, lastStrokes, lastCanvasSize,
                 downloadPNGDisabled, downloadGcodeDisabled, previewCanvas, meta,
                 download>>

\* lines 86-102 and finally, of a run whose passes gave strokesByPass
ProcessDone(L, sbp) ==
  LET combined == combinedStrokes(sbp, L.mmPerPx)
  IN /\ lastStrokes' = [null |-> FALSE, v |-> combined]
     /\ lastCanvasSize' = [w |-> L.targetPxWidth, h |-> L.targetPxHeight.v,
                           mmPerPx |-> L.mmPerPx, angles |-> L.angles]
     /\ previewCanvas' = [width |-> L.targetPxWidth, height |-> L.targetPxHeight.v,
                          strokes |-> Len(combined)]
     /\ downloadPNGDisabled' = FALSE
     /\ downloadGcodeDisabled' = FALSE
     /\ meta' = [text |-> "Processed", w |-> L.targetPxWidth,
                 h |-> L.targetPxHeight.v]
     /\ processBtnDisabled' = FALSE
     /\ lastRun' = [status |-> "done", file |-> images[img].file,
                    afterLoad |-> AnyLoaded, L |-> L, strokesByPass |-> sbp]
     /\ UNCHANGED <<form, raster, readers, images, img, download>>

\* processBtn 'click'
ProcessClick ==
  /\ ~processBtnDisabled
  /\ IF img = 0 THEN UNCHANGED vars
     ELSE LET L == ProcessLocals(form, naturalWidth(img), naturalHeight(img))
          IN IF ExtractThrows(L) THEN ProcessThrew(L)
             ELSE \E cs \in PassCanvases(images[img].file, L.targetPxWidth,
                                         L.targetPxHeight.v, L.angles,
                                         L.lineSpacingPx, raster, 0) :
                    ProcessDone(L, StrokesByPass(L, cs, form.threshold))

\* downloadPNG 'click'
DownloadPNGClick ==
  /\ ~downloadPNGDisabled
  /\ IF lastStrokes.null THEN UNCHANGED vars
     ELSE /\ download' = [name |-> "plot-preview.png", lines |-> <<>>,
                          canvas |-> previewCanvas]
          /\ UNCHANGED <<form, raster, readers, images, img, lastStrokes, lastCanvasSize,
                         processBtnDisabled, downloadPNGDisabled,
                         downloadGcodeDisabled, previewCanvas, meta, lastRun>>

\* downloadGcode 'click'
DownloadGcodeClick(absolute) ==
  /\ ~downloadGcodeDisabled
  /\ IF lastStrokes.null THEN UNCHANGED vars
     ELSE /\ download' = [name |-> "plot.gcode",
                          lines |-> GcodeLines(lastStrokes.v, Pen, absolute),
                          canvas |-> NoDownload.canvas]
          /\ UNCHANGED <<form, raster, readers, images, img, lastStrokes, lastCanvasSize,
                         processBtnDisabled, downloadPNGDisabled,
                         downloadGcodeDisabled, previewCanvas, meta, lastRun>>

(***************************************************************************)
(* Files, form values and specifications.                                  *)
(***************************************************************************)
Files == {Black10, Stripes11, White2}

\* the files selected in the sessions that start from the freshly loaded page
PageFiles == {Black10, Stripes11}

Form(widthMM, pxPerMM, lineSpacingMM, threshold, angle, passes) ==
  [widthMM |-> widthMM, pxPerMM |-> pxPerMM, lineSpacingMM |-> lineSpacingMM,
   threshold |-> threshold, angle |-> angle, passes |-> passes]

\* the end-to-end scenario: 10 mm wide at 1 px/mm, rows 2 mm apart,
\* threshold 128, angle 0, one pass
DefaultForm == Form(10, 1, 2, 128, Num(0), Num(1))

\* what the rasteriser can produce
Rasters == [1..MaxFree -> Palette]

BlackRaster == [i \in 1..MaxFree |-> 0]

\* the sessions that start from the freshly loaded page
PageSessions ==
  {DefaultForm, Form(2, 1, 1, 255, Num(0), Num(1)), Form(2, 1, 2, 128, Num(90), Num(2))}
    \X {BlackRaster}

\* the runs on a loaded image: sizes and thresholds at angle 0, resolutions
\* other than 1 px/mm, and base angles with pass counts
ScanForms ==
  {Form(w, 1, s, t, Num(0), Num(1)) :
     w \in {-1, 2, 10, 11}, s \in {1, 2}, t \in {128, 255}}
  \cup {Form(3, r, s, t, Num(0), Num(1)) :
          r \in {0, 3}, s \in {0, 1}, t \in {128, 300}}

AngleForms ==
  {Form(2, 1, 2, 128, a, n) :
     a \in {NaN, Num(-90), Num(450)}, n \in {Num(0), Num(2)}}
  \cup {Form(1, 1, 2, 128, a, Num(3)) : a \in {NaN, Num(-90)}}

LoadedSessions == (ScanForms \X {BlackRaster}) \cup (AngleForms \X Rasters)

\* the page from its construction
Init ==
  /\ \E s \in PageSessions : form = s[1] /\ raster = s[2]
  /\ PageInit

Next ==
  \/ \E f \in PageFiles : FileChange(f)
  \/ \E i \in 1..MaxFiles : ReaderLoad(i)
  \/ \E i \in 1..MaxFiles : ImgLoad(i)
  \/ ProcessClick
  \/ DownloadPNGClick
  \/ \E absolute \in BOOLEAN : DownloadGcodeClick(absolute)

Spec == Init /\ [][Next]_vars

\* the page once a first image has loaded
InitLoaded ==
  /\ \E s \in LoadedSessions : form = s[1] /\ raster = s[2]
  /\ readers = <<>>
  /\ \E f \in Files :
       /\ images = <<[file |-> f, complete |-> TRUE]>>
       /\ meta = [text |-> "Loaded image", w |-> f.w, h |-> f.h]
  /\ img = 1
  /\ lastStrokes = Null
  /\ lastCanvasSize = [w |-> 0, h |-> 0, mmPerPx |-> DZero, angles |-> <<>>]
  /\ processBtnDisabled = FALSE
  /\ downloadPNGDisabled = TRUE
  /\ downloadGcodeDisabled = TRUE
  /\ previewCanvas = [width |-> 0, height |-> 0, strokes |-> 0]
  /\ download = NoDownload
  /\ lastRun = NoRun

NextLoaded ==
  \/ ProcessClick
  \/ DownloadPNGClick
  \/ \E absolute \in BOOLEAN : DownloadGcodeClick(absolute)

SpecLoaded == InitLoaded /\ [][NextLoaded]_vars

(***************************************************************************)
(* The emitter on stroke lists of any shape: polylines of 0 to MaxPts      *)
(* points, MaxStrokes of them at most.                                     *)
(***************************************************************************)
PointAt(i) == [x |-> DMulInt(i, DDivInt(1, 5)), y |-> DInt(i)]

Polylines == {[j \in 1..n |-> PointAt(j)] : n \in 0..MaxPts}

StrokeLists == UNION {[1..n -> Polylines] : n \in 0..MaxStrokes}

InitEmitter ==
  /\ form = DefaultForm
  /\ raster = BlackRaster
  /\ readers = <<>>
  /\ images = <<[file |-> Black10, complete |-> TRUE]>>
  /\ meta = [text |-> "Processed", w |-> 10, h |-> 10]
  /\ img = 1
  /\ \E l \in StrokeLists : lastStrokes = [null |-> FALSE, v |-> l]
  /\ lastCanvasSize = [w |-> 10, h |-> 10, mmPerPx |-> DInt(1), angles |-> <<0>>]
  /\ processBtnDisabled = FALSE
  /\ downloadPNGDisabled = FALSE
  /\ downloadGcodeDisabled = FALSE
  /\ previewCanvas = [width |-> 10, height |-> 10, strokes |-> Len(lastStrokes.v)]
  /\ download = NoDownload
  /\ lastRun = NoRun

NextEmitter == \E absolute \in BOOLEAN : DownloadGcodeClick(absolute)

SpecEmitter == InitEmitter /\ [][NextEmitter]_vars

(***************************************************************************)
(* Properties.                                                             *)
(***************************************************************************)
\* the grey levels that are dark under the form's threshold: gray < threshold
DarkLevels == {v \in Palette : IsDark(Luminance(v, v, v), form.threshold)}

\* the passes of the latest run, when it completed
DonePasses == IF lastRun.status = "done" THEN lastRun.strokesByPass ELSE <<>>

PassSet == {DonePasses[i] : i \in 1..Len(DonePasses)}

DarkPx(D, pass, x, y) == pass.data[y + 1][x + 1] \in D

\* the maximal runs of adjacent dark pixels of row y, as <<first, last>> columns
MaximalRuns(D, pass, y) ==
  {r \in (0..(pass.rotW - 1)) \X (0..(pass.rotW - 1)) :
     /\ r[1] <= r[2]
     /\ \A x \in r[1]..r[2] : DarkPx(D, pass, x, y)
     /\ r[1] = 0 \/ ~DarkPx(D, pass, r[1] - 1, y)
     /\ r[2] = pass.rotW - 1 \/ ~DarkPx(D, pass, r[2] + 1, y)}

RowSegments(pass, y) == {i \in 1..Len(pass.strokes) : pass.strokes[i][1].y = y}

\* row y of the pass holds exactly one Segment per maximal run, from the run's
\* first dark column to its last
RowReduced(D, pass, y) ==
  /\ Cardinality(RowSegments(pass, y)) = Cardinality(MaximalRuns(D, pass, y))
  /\ {<<pass.strokes[i][1].x, pass.strokes[i][2].x>> : i \in RowSegments(pass, y)}
       = MaximalRuns(D, pass, y)
  /\ \A i \in RowSegments(pass, y) : pass.strokes[i][2].y = y

AllWhite(pass) ==
  \A y \in 1..pass.rotH, x \in 1..pass.rotW : pass.data[y][x] = White

\* C1 (run reduction proper): in every pass of a completed run, every scanned
\* row holds exactly one Segment per maximal run of adjacent dark pixels
\* (gray < threshold), from the run's first dark column to its last; an open
\* run at the end of the row is closed, a single dark pixel gives start = end,
\* and a row without dark pixels gives no Segment.
C1_RunReduction ==
  LET D == DarkLevels
  IN \A pass \in PassSet :
       \A y \in ScanYs(pass.rotH, lastRun.L.lineSpacingPx) : RowReduced(D, pass, y)

\* C1 as stated: the run reduction, and an all-white buffer yields no Segment
\* under any threshold of the range 0..255.
C1_RunReductionWhiteClean ==
  /\ C1_RunReduction
  /\ \A pass \in PassSet :
       AllWhite(pass) /\ form.threshold \in 0..255 => pass.strokes = <<>>

\* the scanned row with dark pixels exactly at columns 2, 3, 4, 9, 10 gave
\* (2,0)-(4,0) and (9,0)-(10,0)
C1_Witness ==
  /\ lastRun.status = "done"
  /\ lastRun.file = Stripes11
  /\ Len(DonePasses) = 1
  /\ DonePasses[1].data = Stripes11.px
  /\ DonePasses[1].strokes =
       << <<[x |-> 2, y |-> 0], [x |-> 4, y |-> 0]>>,
          <<[x |-> 9, y |-> 0], [x |-> 10, y |-> 0]>> >>

\* start of pass p's strokes in a list that holds the passes one after another
Offset(passes, p) ==
  LET off[q \in 0..Len(passes)] ==
        IF q = 0 THEN 0 ELSE off[q - 1] + Len(passes[q].strokes)
  IN off[p - 1]

\* the physical-space stroke the merge makes of a Segment
InMM(seg, mmPerPx) ==
  [j \in 1..2 |-> [x |-> DMulInt(seg[j].x, mmPerPx), y |-> DMulInt(seg[j].y, mmPerPx)]]

\* strokes i < j of one pass: an earlier row, or the same row further left
Before(a, b) ==
  \/ a[1].y < b[1].y
  \/ a[1].y = b[1].y /\ a[1].x < b[1].x /\ a[2].x < b[1].x

\* C2: the merged stroke list holds the strokes of pass 0, then those of pass
\* 1, and so on; within a pass they are in increasing scan row y, and within a
\* row in strictly increasing start-x, each run ending before the next starts.
C2_StrokeOrdering ==
  lastRun.status = "done" =>
    /\ \A p \in 1..Len(DonePasses) :
         \A i \in 1..Len(DonePasses[p].strokes) :
           /\ Offset(DonePasses, p) + i <= Len(lastStrokes.v)
           /\ lastStrokes.v[Offset(DonePasses, p) + i]
                = InMM(DonePasses[p].strokes[i], lastRun.L.mmPerPx)
    /\ \A pass \in PassSet :
         \A i, j \in 1..Len(pass.strokes) :
           i < j => Before(pass.strokes[i], pass.strokes[j])

\* a run of two passes that both gave strokes, the first pass more than one row
C2_Witness ==
  /\ lastRun.status = "done"
  /\ Len(DonePasses) >= 2
  /\ Len(DonePasses[1].strokes) >= 1
  /\ Len(DonePasses[2].strokes) >= 1
  /\ DonePasses[1].strokes # DonePasses[2].strokes

\* C3: every Segment of a pass lies in that pass's rotated buffer,
\* 0 <= start.x <= end.x < rotW and 0 <= start.y = end.y < rotH, on a row that
\* is a multiple of the pixel row spacing.
C3_Bounds ==
  \A pass \in PassSet :
    \A i \in 1..Len(pass.strokes) :
      LET s == pass.strokes[i]
      IN /\ 0 <= s[1].x /\ s[1].x <= s[2].x /\ s[2].x < pass.rotW
         /\ 0 <= s[1].y /\ s[1].y = s[2].y /\ s[2].y < pass.rotH
         /\ s[1].y % lastRun.L.lineSpacingPx = 0

\* a pass with a stroke on a row below the first, ending at the last column
C3_Witness ==
  \E pass \in PassSet :
    \E i \in 1..Len(pass.strokes) :
      /\ pass.strokes[i][1].y > 0
      /\ pass.strokes[i][2].x = pass.rotW - 1
      /\ lastRun.L.lineSpacingPx > 1

\* C4: a run generates exactly N angles, N the pass count, the p-th being
\* baseAngle + p * 180 / N brought into [0, 360).
C4_PassAngles ==
  lastRun.status \in {"done", "threw"} =>
    LET N == Max(1, JsOr(form.passes, 1))
        base == JsOr(form.angle, 0)
    IN /\ Len(lastRun.L.angles) = N
       /\ \A p \in 1..N :
            /\ lastRun.L.angles[p] \in 0..359
            /\ lastRun.L.angles[p] = (base + ((p - 1) * 180) \div N) % 360

\* a run from base angle -90
C4_NegativeBase ==
  /\ lastRun.status = "done"
  /\ form.angle = Num(-90)

\* the form or the image of the latest run is invalid: target width,
\* px-per-unit or line spacing not positive, threshold outside 0..255, pass
\* count below 1, or an image of natural width zero
InvalidInput ==
  \/ form.widthMM <= 0
  \/ form.pxPerMM <= 0
  \/ form.lineSpacingMM <= 0
  \/ form.threshold \notin 0..255
  \/ ~form.passes.nan /\ form.passes.v < 1
  \/ lastRun.L.naturalWidth = 0

\* C5: a run on invalid input is rejected before the pipeline: it never
\* reaches extractStrokesFromImage and never stores a stroke list.
C5_InvalidInputRejected ==
  lastRun.status \in {"done", "threw"} => ~InvalidInput

\* a run at target width -1 that stored a job
C5_NegativeWidthJob ==
  /\ lastRun.status = "done"
  /\ form.widthMM = -1
  /\ ~lastStrokes.null

Fix3(n) == ToFixed3(DInt(n))

\* the G0 Z line in force after line k raises the pen
PenUpAfter(G, k) ==
  LET zs == {i \in 1..k : G[i].op = "G0Z"}
  IN /\ zs # {}
     /\ G[CHOOSE i \in zs : \A j \in zs : j <= i].x = Fix3(Pen.penUpZ)

\* the feed of the F line in force after line k
FeedAfter(G, k) ==
  LET fs == {i \in 1..k : G[i].op = "F"}
  IN IF fs = {} THEN 0 ELSE G[CHOOSE i \in fs : \A j \in fs : j <= i].f

\* lines before the block of stroke i: the 6 header lines and, for every
\* earlier stroke with points, its n points' n + 5 lines
BlockStart(strokes, i) ==
  LET len[j \in 0..Len(strokes)] ==
        IF j = 0 THEN 6
        ELSE len[j - 1] + (IF Len(strokes[j]) = 0 THEN 0 ELSE Len(strokes[j]) + 5)
  IN len[i - 1]

\* C6: the downloaded G-code is the header (units, positioning mode, pen up,
\* travel feed), then for each stroke with points, in list order: one travel
\* move to its first point, one pen-down, one draw feed, one G1 per further
\* point, one pen-up, one travel feed.  So every G0 X/Y is made with the pen up
\* at the travel feed, every G1 with the pen down at the draw feed, pen-down and
\* pen-up alternate, and the pen is up at the end.
C6_PenSequencing ==
  download.name = "plot.gcode" =>
    LET G == download.lines
        S == lastStrokes.v
    IN /\ Len(G) = BlockStart(S, Len(S) + 1) + 2
       /\ G[2].op = "G21"
       /\ G[3].op \in {"G90", "G91"}
       /\ G[4].op = "G0Z" /\ G[4].x = Fix3(Pen.penUpZ)
       /\ G[5].op = "F" /\ G[5].f = Pen.feedTravel
       /\ \A i \in 1..Len(S) :
            Len(S[i]) > 0 =>
              LET b == BlockStart(S, i)
                  n == Len(S[i])
              IN /\ G[b + 1].op = "comment" /\ G[b + 1].f = i
                 /\ G[b + 2].op = "G0"
                 /\ G[b + 2].x = ToFixed3(S[i][1].x)
                 /\ G[b + 2].y = ToFixed3(S[i][1].y)
                 /\ G[b + 3].op = "G0Z" /\ G[b + 3].x = Fix3(Pen.penDownZ)
                 /\ G[b + 4].op = "F" /\ G[b + 4].f = Pen.feedDraw
                 /\ \A k \in 2..n :
                      /\ G[b + 3 + k].op = "G1"
                      /\ G[b + 3 + k].x = ToFixed3(S[i][k].x)
                      /\ G[b + 3 + k].y = ToFixed3(S[i][k].y)
                 /\ G[b + n + 4].op = "G0Z" /\ G[b + n + 4].x = Fix3(Pen.penUpZ)
                 /\ G[b + n + 5].op = "F" /\ G[b + n + 5].f = Pen.feedTravel
       /\ \A k \in 1..Len(G) :
            /\ G[k].op = "G0" =>
                 PenUpAfter(G, k) /\ FeedAfter(G, k) = Pen.feedTravel
            /\ G[k].op = "G1" =>
                 ~PenUpAfter(G, k) /\ FeedAfter(G, k) = Pen.feedDraw
            /\ G[k].op = "G0Z" /\ k > 1 /\ (\E j \in 1..(k - 1) : G[j].op = "G0Z") =>
                 PenUpAfter(G, k) # PenUpAfter(G, k - 1)
       /\ PenUpAfter(G, Len(G))

\* a download of a list that holds a stroke without points, a stroke of one
\* point and a polyline of three
C6_Witness ==
  /\ download.name = "plot.gcode"
  /\ \E i, j, k \in 1..Len(lastStrokes.v) :
       /\ Len(lastStrokes.v[i]) = 0
       /\ Len(lastStrokes.v[j]) = 1
       /\ Len(lastStrokes.v[k]) = 3
       /\ i < k

\* the merged list holds one 2-point Stroke per Segment, in place
MergeShape ==
  /\ Len(lastStrokes.v) = Offset(DonePasses, Len(DonePasses) + 1)
  /\ \A k \in 1..Len(lastStrokes.v) : Len(lastStrokes.v[k]) = 2

\* the merged points of Segment i of pass p, with the pixel coordinates they
\* were made from, as <<point coordinate, pixel coordinate>>
MergedCoords ==
  UNION {UNION {
    LET seg == DonePasses[p].strokes[i]
        st == lastStrokes.v[Offset(DonePasses, p) + i]
    IN {<<st[j].x, seg[j].x>> : j \in 1..2} \cup {<<st[j].y, seg[j].y>> : j \in 1..2} :
    i \in 1..Len(DonePasses[p].strokes)} : p \in 1..Len(DonePasses)}

AllDark(D, pass) ==
  \A y \in 1..pass.rotH, x \in 1..pass.rotW : pass.data[y][x] \in D

\* C8: one pass at angle 0 over a W x H buffer of dark pixels, rows s apart
\* with s = max(1, round(lineSpacing * pxPerUnit)): rotW = W, rotH = H, and the
\* strokes are exactly (0,y)-(W-1,y) for y = 0, s, 2s, ... below H, ceil(H/s)
\* of them.  For the 10x10 black image at 1 px/mm, spacing 2, threshold 128
\* these are the 5 strokes (0,y)-(9,y), y = 0, 2, 4, 6, 8.
C8_UnrotatedAllDark ==
  LET D == DarkLevels
      W == lastRun.L.targetPxWidth
      H == lastRun.L.targetPxHeight.v
      s == lastRun.L.lineSpacingPx
      n == (H + s - 1) \div s
  IN /\ lastRun.status = "done" /\ lastRun.L.angles = <<0>>
          /\ AllDark(D, DonePasses[1]) =>
            /\ s = Max(1, form.lineSpacingMM * form.pxPerMM)
            /\ DonePasses[1].rotW = W
            /\ DonePasses[1].rotH = H
            /\ DonePasses[1].strokes =
                 [k \in 1..n |-> <<[x |-> 0, y |-> (k - 1) * s],
                                   [x |-> W - 1, y |-> (k - 1) * s]>>]
            /\ Len(lastStrokes.v) = n
     /\ lastRun.status = "done" /\ form = DefaultForm /\ lastRun.file = Black10 =>
          lastStrokes.v =
            [k \in 1..5 |-> <<[x |-> DInt(0), y |-> DInt(2 * (k - 1))],
                              [x |-> DInt(9), y |-> DInt(2 * (k - 1))]>>]

\* the end-to-end scenario has run
C8_Witness ==
  /\ lastRun.status = "done"
  /\ form = DefaultForm
  /\ lastRun.file = Black10
  /\ Len(lastStrokes.v) = 5

\* C9: once a first image has loaded and enabled the Process button, no
\* order of file selections, reads, loads and Process clicks runs the pipeline
\* on an image of natural width zero.
C9_NeverUnloaded ==
  lastRun.status \in {"done", "threw"} /\ lastRun.afterLoad =>
    lastRun.L.naturalWidth # 0

\* a run that divided by the zero width of a replacement image not yet loaded,
\* after the first image had loaded
C9_UnloadedRun ==
  /\ lastRun.status = "threw"
  /\ lastRun.afterLoad
  /\ lastRun.L.naturalWidth = 0
  /\ lastRun.L.scale = DInf
  /\ Len(images) = 2
  /\ images[1].complete
  /\ ~images[2].complete

\* what a step may do to the stored job
JobStep ==
  /\ <<lastStrokes, lastCanvasSize>>' # <<lastStrokes, lastCanvasSize>> =>
       /\ lastRun'.status = "done"
       /\ download' = download
       /\ lastStrokes' =
            [null |-> FALSE,
             v |-> combinedStrokes(lastRun'.strokesByPass, lastRun'.L.mmPerPx)]
       /\ lastCanvasSize'.w = lastRun'.L.targetPxWidth
  /\ lastRun' # lastRun /\ lastRun'.status = "threw" =>
       <<lastStrokes, lastCanvasSize>>' = <<lastStrokes, lastCanvasSize>>
  /\ download' # download =>
       /\ <<lastStrokes, lastCanvasSize>>' = <<lastStrokes, lastCanvasSize>>
       /\ ~lastStrokes.null
       /\ download'.name = "plot.gcode" =>
            \E absolute \in BOOLEAN :
              download'.lines = GcodeLines(lastStrokes.v, Pen, absolute)

\* C10: the stored job changes only in a step that completes a Process run,
\* which stores that run's whole merged list; a run that throws and the two
\* downloads leave it as it was; a G-code download writes the stored list, and
\* nothing is downloaded while no run has succeeded.
C10_JobLifecycle ==
  /\ [](lastStrokes.null => download = NoDownload /\ lastRun.status # "done")
  /\ [][JobStep]_vars

\* a run threw after an earlier run had stored strokes, and the strokes are
\* still there
C10_Witness ==
  /\ lastRun.status = "threw"
  /\ ~lastStrokes.null
  /\ Len(lastStrokes.v) >= 1
  /\ download.name = "plot.gcode"

====
